---------------------------- MODULE Spec2Model ----------------------------
(***************************************************************************)
(* Model of the DocuMind LLM gateway (server.py) and of the WhatsApp LLM   *)
(* worker (whatsapp_llm_gateway.py).                                       *)
(*                                                                         *)
(* Text is modelled as a sequence of one-character strings, so that        *)
(* strip(), lower(), "in" and int()/float() parsing are computed and not   *)
(* assumed.  A JSON / Python value is a record tagged by its type:         *)
(*   [t |-> "absent"]            the key is not in the mapping             *)
(*   [t |-> "null"]              None                                      *)
(*   [t |-> "int", n |-> i]      the integer i                             *)
(*   [t |-> "float", num, den]   the float num/den (den = 0: infinity)     *)
(*   [t |-> "str", s |-> chars]  a string                                  *)
(*   [t |-> "list", e |-> seq]   a list                                    *)
(*   [t |-> "obj", ...]          a mapping (its keys are further fields)   *)
(***************************************************************************)
EXTENDS Integers, Sequences, FiniteSets, TLC

VARIABLES
    \* ---- server.py: configuration read from the environment at start
    GATEWAY_DEFAULT_TIMEOUT_MS, GATEWAY_MAX_TIMEOUT_MS, MODEL_TOKENS,
    \* ---- server.py: the /chat request being served
    svPc,        \* "idle" | "responded" | "fault" (HTTPException) | "raised"
    svReq,       \* the request: route, question fields, hints
    svResp,      \* the JSON response, or the fault's status code
    svLlama,     \* number of call_llama invocations
    \* ---- whatsapp_llm_gateway.py: the /api/wa request being served
    pc,          \* position of the handler coroutine
    req,         \* the request: route and JSON body
    q, t, mx, to,         \* handler locals
    ctx, sources, prompt, \* _answer_with_retry locals
    i, delay,             \* attempt counter and backoff delay (ms)
    env,         \* the TWILIO_* settings read from the environment at start
    fetched,     \* what the retrieval backend gave this request
    retrievals,  \* payloads POSTed to the retrieval backend
    bodies,      \* bodies POSTed to the generation backend, in order
    results,     \* what each _call_chat_prompt gave: a tuple or an exception
    sleeps,      \* the asyncio.sleep delays taken (ms)
    sends,       \* messages POSTed to the Twilio API
    delivered,   \* how the Twilio POST ended: "none" | "ok" | "error"
    ret,         \* what _answer_with_retry returned
    resp         \* the JSON response given to the caller

svVars == <<GATEWAY_DEFAULT_TIMEOUT_MS, GATEWAY_MAX_TIMEOUT_MS, MODEL_TOKENS,
            svPc, svReq, svResp, svLlama>>
waVars == <<pc, req, q, t, mx, to, ctx, sources, prompt, i, delay,
            env, fetched, retrievals, bodies, results, sleeps, sends, delivered,
            ret, resp>>
vars == <<svVars, waVars>>

---------------------------------------------------------------------------
(* Python values *)

Absent == [t |-> "absent"]
JNull == [t |-> "null"]
JInt(n) == [t |-> "int", n |-> n]
JFloat(num, den) == [t |-> "float", num |-> num, den |-> den]
JStr(s) == [t |-> "str", s |-> s]
JList(e) == [t |-> "list", e |-> e]
EmptyObj == [t |-> "obj"]

\* The outcome of an expression that may raise: a value or an exception.
Val(v) == [ok |-> TRUE, v |-> v]
Raise == [ok |-> FALSE]

\* Optional[int]
None == [some |-> FALSE]
Some(v) == [some |-> TRUE, v |-> v]

Min(a, b) == IF a < b THEN a ELSE b
Max(a, b) == IF a > b THEN a ELSE b

\* Python's int(x) of a float truncates toward zero.
TruncDiv(n, d) == IF n >= 0 THEN n \div d ELSE -((-n) \div d)

DigitChars == <<"0", "1", "2", "3", "4", "5", "6", "7", "8", "9">>
IsDigit(c) == \E k \in 1..10 : DigitChars[k] = c
DigitVal(c) == (CHOOSE k \in 1..10 : DigitChars[k] = c) - 1

\* str.strip()
RECURSIVE LStrip(_)
LStrip(s) == IF s # <<>> /\ Head(s) = " " THEN LStrip(Tail(s)) ELSE s
RECURSIVE RStrip(_)
RStrip(s) ==
    IF s # <<>> /\ s[Len(s)] = " " THEN RStrip(SubSeq(s, 1, Len(s) - 1)) ELSE s
Strip(s) == RStrip(LStrip(s))

\* str.lower()
UpperChars == <<"A", "B", "C", "D", "E", "F", "G", "H", "I", "J", "K", "L", "M",
                "N", "O", "P", "Q", "R", "S", "T", "U", "V", "W", "X", "Y", "Z">>
LowerChars == <<"a", "b", "c", "d", "e", "f", "g", "h", "i", "j", "k", "l", "m",
                "n", "o", "p", "q", "r", "s", "t", "u", "v", "w", "x", "y", "z">>
LowerChar(c) ==
    IF \E k \in 1..26 : UpperChars[k] = c
    THEN LowerChars[CHOOSE k \in 1..26 : UpperChars[k] = c]
    ELSE c
Lower(s) == [k \in 1..Len(s) |-> LowerChar(s[k])]

\* needle in hay
Contains(hay, needle) ==
    \E k \in 1..(Len(hay) - Len(needle) + 1) :
        SubSeq(hay, k, k + Len(needle) - 1) = needle

\* str(n) of an integer
RECURSIVE NatStr(_)
NatStr(n) ==
    IF n < 10 THEN <<DigitChars[n + 1]>>
    ELSE NatStr(n \div 10) \o <<DigitChars[(n % 10) + 1]>>
IntStr(n) == IF n < 0 THEN <<"-">> \o NatStr(-n) ELSE NatStr(n)

\* The value of a string of decimal digits.
RECURSIVE DigitsVal(_)
DigitsVal(s) ==
    IF s = <<>> THEN 0
    ELSE 10 * DigitsVal(SubSeq(s, 1, Len(s) - 1)) + DigitVal(s[Len(s)])
AllDigits(s) == s # <<>> /\ \A k \in 1..Len(s) : IsDigit(s[k])

RECURSIVE Pow10(_)
Pow10(k) == IF k = 0 THEN 1 ELSE 10 * Pow10(k - 1)

\* An operator takes each intermediate value as a parameter (not as a LET
\* name), one step of the source per operator.

SignOf(u) == IF u # <<>> /\ Head(u) = "-" THEN -1 ELSE 1
Unsigned(u) == IF u # <<>> /\ Head(u) \in {"+", "-"} THEN Tail(u) ELSE u

IntOfDigits(sgn, ds) == IF AllDigits(ds) THEN Val(sgn * DigitsVal(ds)) ELSE Raise
IntOfStripped(u) == IntOfDigits(SignOf(u), Unsigned(u))
\* int("...") : surrounding blanks, an optional sign, decimal digits.
StrToInt(s) == IntOfStripped(Strip(s))

\* The position of the first "." of s, Len(s) + 1 when it has none.
DotPos(s) ==
    IF \E k \in 1..Len(s) : s[k] = "."
    THEN CHOOSE k \in 1..Len(s) : s[k] = "." /\ \A j \in 1..(k - 1) : s[j] # "."
    ELSE Len(s) + 1
FloatOfDigits(sgn, ds, k) ==
    IF AllDigits(ds) THEN Val(JFloat(sgn * DigitsVal(ds), Pow10(k))) ELSE Raise
FloatOfParts(sgn, body, p) ==
    FloatOfDigits(sgn, SubSeq(body, 1, p - 1) \o SubSeq(body, p + 1, Len(body)),
                  IF p > Len(body) THEN 0 ELSE Len(body) - p)
FloatOfBody(sgn, body) ==
    IF Lower(body) = <<"i", "n", "f">> THEN Val(JFloat(sgn, 0))
    ELSE FloatOfParts(sgn, body, DotPos(body))
FloatOfStripped(u) == FloatOfBody(SignOf(u), Unsigned(u))
\* float("...") : as int("..."), with an optional fraction, or "inf".
StrToFloat(s) == FloatOfStripped(Strip(s))

\* int(x)
PyInt(x) ==
    CASE x.t = "int" -> Val(x.n)
      [] x.t = "float" -> IF x.den = 0 THEN Raise ELSE Val(TruncDiv(x.num, x.den))
      [] x.t = "str" -> StrToInt(x.s)
      [] OTHER -> Raise

\* float(x)
PyFloat(x) ==
    CASE x.t = "int" -> Val(JFloat(x.n, 1))
      [] x.t = "float" -> Val(x)
      [] x.t = "str" -> StrToFloat(x.s)
      [] OTHER -> Raise

\* bool(x): what "x or y" and "not x" test.  The keys of a mapping are its
\* fields other than t.
Truthy(x) ==
    CASE x.t \in {"absent", "null"} -> FALSE
      [] x.t = "int" -> x.n # 0
      [] x.t = "float" -> x.num # 0
      [] x.t = "str" -> x.s # <<>>
      [] x.t = "list" -> x.e # <<>>
      [] x.t = "obj" -> \E k \in DOMAIN x \ {"t"} : x[k] # Absent
      [] OTHER -> TRUE

\* d.get(k): None when the key is missing.
Get(d, k) == IF k \in DOMAIN d /\ d[k] # Absent THEN d[k] ELSE JNull
\* k in d
HasKey(d, k) == k \in DOMAIN d /\ d[k] # Absent
\* x or y
Or(x, y) == IF Truthy(x) THEN x ELSE y

---------------------------------------------------------------------------
(* server.py *)

\* Strings used as inputs and outputs.
S_empty == <<>>
S_blank == <<" ">>
S_hi == <<"h", "i">>
S_hi_padded == <<" ", "h", "i", " ">>
S_abc == <<"a", "b", "c">>
S_ans == <<"a", "n", "s">>

MaxModelTokens == 2

\* Lines 74-77: cap = int(req_cap), MODEL_TOKENS when that raises.
CapOf(p) == IF p.ok THEN p.v ELSE MODEL_TOKENS
\* Lines 78-79
FloorCap(cap) == IF cap < 1 THEN 1 ELSE cap
\* Lines 80-81
CeilCap(cap) == IF cap > MODEL_TOKENS THEN MODEL_TOKENS ELSE cap

\* _clamp_tokens with the upper clamp (lines 80-81) left out.
_clamp_tokens_noceil(req_cap) ==
    IF ~Truthy(req_cap) THEN MODEL_TOKENS
    ELSE FloorCap(CapOf(PyInt(req_cap)))

_clamp_tokens(req_cap) ==
    IF ~Truthy(req_cap) THEN MODEL_TOKENS
    ELSE CeilCap(FloorCap(CapOf(PyInt(req_cap))))

\* An int() that raised leaves the hint unset.
OptOf(p) == IF p.ok THEN Some(p.v) ELSE None
\* int(float(x) * 1000.0); int() of an infinity raises.
SecToMs(f) ==
    IF f.ok /\ f.v.den # 0 THEN Some(TruncDiv(f.v.num * 1000, f.v.den)) ELSE None

\* Lines 98-105: the explicit-milliseconds hint.
ExplicitMs(d) ==
    IF HasKey(d, "timeout_ms") /\ Get(d, "timeout_ms") # JNull
    THEN OptOf(PyInt(Get(d, "timeout_ms")))
    ELSE None

\* Lines 107-114: the seconds hint.
ExplicitSec(d) ==
    IF HasKey(d, "timeout") /\ Get(d, "timeout") # JNull
    THEN SecToMs(PyFloat(Get(d, "timeout")))
    ELSE None

\* Line 122 without the 1000 ms floor.
ClampMs_nofloor(t_ms) == Min(t_ms, GATEWAY_MAX_TIMEOUT_MS)

\* Line 122: clamp to bounds.
ClampMs(t_ms) == Max(1000, Min(t_ms, GATEWAY_MAX_TIMEOUT_MS))

\* Lines 124-125 tagging "clamped" whenever the value changed.
SourceTag_changed(requested, clamped_val) ==
    IF requested.some
    THEN IF clamped_val # requested.v THEN "clamped" ELSE "client"
    ELSE "default"

\* Lines 94-125: the provenance tag.  requested is None when no hint parsed.
SourceTag(requested, clamped_val) ==
    IF requested.some
    THEN IF clamped_val < requested.v THEN "clamped" ELSE "client"
    ELSE "default"

\* Lines 98-114 taking the seconds hint before the milliseconds hint.
FirstSome_second(ms, sec) == IF sec.some THEN sec ELSE ms

\* Lines 98-114: the milliseconds hint when it parsed, else the seconds hint.
FirstSome(ms, sec) == IF ms.some THEN ms ELSE sec

\* The client's value by precedence, None when there is none.
Requested(d) == FirstSome(ExplicitMs(d), ExplicitSec(d))

\* Lines 116-127
Tagged(requested, clamped_val) ==
    [t_ms |-> clamped_val, src |-> SourceTag(requested, clamped_val)]
Resolved(requested) ==
    Tagged(requested,
           ClampMs(IF requested.some THEN requested.v
                   ELSE GATEWAY_DEFAULT_TIMEOUT_MS))

_resolve_timeout_ms(d) == Resolved(Requested(d))

\* call_llama as seen by a handler: the answer, or an HTTPException.
LlamaOutcomes ==
    {[ok |-> TRUE, text |-> S_ans], [ok |-> FALSE, status |-> 502]}

\* Lines 241-249 / 269-277 (elapsed_ms, a clock reading, is left out).
ChatJson(ans, n_tokens, tm) ==
    [reply |-> ans, response |-> ans, used_tokens |-> n_tokens,
     max_tokens_used |-> n_tokens, timeout_ms_used |-> tm.t_ms,
     timeout_source |-> tm.src]

\* What a handler run leaves: where it ended, its response, its calls.
Ended(how, response, llama) == [pc |-> how, resp |-> response, llama |-> llama]

\* Lines 238-249 / 266-277: call the model and answer.
Served(out, n_tokens, tm) ==
    IF out.ok THEN Ended("responded", ChatJson(out.text, n_tokens, tm), 1)
    ELSE Ended("fault", [status |-> out.status], 1)

\* GET /chat
chat_get(r, out) ==
    IF Strip(Or(Or(r.prompt, r.q), JStr(S_empty)).s) = S_empty
    THEN Ended("fault", [status |-> 422], 0)
    ELSE Served(out, _clamp_tokens(Or(r.max_tokens, r.n_predict)),
                _resolve_timeout_ms(r.query))

\* Lines 260-262: the query parameters, overridden by the body's keys.
Merged(r) ==
    [k \in {"t", "timeout_ms", "timeout"} |->
        IF k = "t" THEN "obj"
        ELSE IF HasKey(r.payload, k) THEN r.payload[k] ELSE r.query[k]]

\* Lines 254-256: text = ((payload or {}).get("prompt") or "").strip()
PostText(p) == IF p.t = "str" THEN Val(Strip(p.s)) ELSE Raise
PostGuard(r, out, text) ==
    IF ~text.ok THEN Ended("raised", [status |-> 500], 0)
    ELSE IF text.v = S_empty THEN Ended("fault", [status |-> 422], 0)
    ELSE Served(out,
                _clamp_tokens(Or(Get(r.payload, "max_tokens"),
                                 Get(r.payload, "n_predict"))),
                _resolve_timeout_ms(Merged(r)))

\* POST /chat
chat_post(r, out) ==
    PostGuard(r, out, PostText(Or(Get(r.payload, "prompt"), JStr(S_empty))))

\* Inputs.
S_5000 == <<"5", "0", "0", "0">>
S_2p5 == <<"2", ".", "5">>
S_inf == <<"i", "n", "f">>
S_2 == <<"2">>

IntTokenHints == {JInt(n) : n \in -1..(MaxModelTokens + 1)}
GetPrompts == {JNull, JStr(S_empty), JStr(S_hi_padded)}
GetQs == {JNull, JStr(S_hi)}
GetTokens == {JNull} \cup IntTokenHints
QueryTimeoutMs == {Absent, JStr(S_abc), JStr(S_5000)}
QueryTimeouts == {Absent, JStr(S_2p5)}
PostPrompts == {Absent, JStr(S_blank), JStr(S_hi_padded), JInt(5)}
PostTokens == {Absent, JStr(S_abc), JStr(S_2), JFloat(1, 2)} \cup IntTokenHints
NPredicts == {Absent, JInt(1)}
PostTimeoutMs ==
    {Absent, JNull, JStr(S_abc), JStr(S_5000), JInt(0), JInt(-5), JInt(60001),
     JFloat(3001, 2)}
PostTimeouts ==
    {Absent, JNull, JStr(S_2p5), JStr(S_inf), JInt(0), JFloat(1, 16), JInt(61)}

NoReq == [route |-> "none"]
NoResp == [status |-> 0]

\* The hints of one request: a token hint with no timeout hint, or timeout
\* hints with no token hint (the two are resolved independently).
Hints(tokens, npredicts, ms, secs, qms) ==
    {[max_tokens |-> m, n_predict |-> n, timeout_ms |-> Absent,
      timeout |-> Absent, qtm |-> Absent] : m \in tokens, n \in npredicts}
    \cup
    {[max_tokens |-> CHOOSE m \in tokens : ~Truthy(m),
      n_predict |-> CHOOSE n \in npredicts : ~Truthy(n),
      timeout_ms |-> a, timeout |-> b, qtm |-> c] :
        a \in ms, b \in secs, c \in qms}

\* The handler's run, recorded.
SvEnd(r, e) ==
    /\ svReq' = r
    /\ svPc' = e.pc
    /\ svResp' = e.resp
    /\ svLlama' = e.llama

ChatGet ==
    /\ svPc = "idle" /\ pc = "idle"
    /\ \E pr \in GetPrompts, qq \in GetQs, out \in LlamaOutcomes,
          h \in Hints(GetTokens, {JNull, JInt(1)}, QueryTimeoutMs, QueryTimeouts,
                      {Absent}) :
          LET r == [route |-> "GET /chat", prompt |-> pr, q |-> qq,
                    max_tokens |-> h.max_tokens, n_predict |-> h.n_predict,
                    query |-> [t |-> "obj", timeout_ms |-> h.timeout_ms,
                               timeout |-> h.timeout]]
          IN  SvEnd(r, chat_get(r, out))
    /\ UNCHANGED <<GATEWAY_DEFAULT_TIMEOUT_MS, GATEWAY_MAX_TIMEOUT_MS, MODEL_TOKENS>>
    /\ UNCHANGED waVars

ChatPost ==
    /\ svPc = "idle" /\ pc = "idle"
    /\ \E pr \in PostPrompts, out \in LlamaOutcomes,
          h \in Hints(PostTokens, NPredicts, PostTimeoutMs, PostTimeouts,
                      {Absent, JStr(S_5000)}) :
          LET r == [route |-> "POST /chat",
                    payload |-> [t |-> "obj", prompt |-> pr,
                                 max_tokens |-> h.max_tokens,
                                 n_predict |-> h.n_predict,
                                 timeout_ms |-> h.timeout_ms,
                                 timeout |-> h.timeout],
                    query |-> [t |-> "obj", timeout_ms |-> h.qtm,
                               timeout |-> Absent]]
          IN  SvEnd(r, chat_post(r, out))
    /\ UNCHANGED <<GATEWAY_DEFAULT_TIMEOUT_MS, GATEWAY_MAX_TIMEOUT_MS, MODEL_TOKENS>>
    /\ UNCHANGED waVars


---------------------------------------------------------------------------
(* whatsapp_llm_gateway.py *)

WA_LLM_TIMEOUT_MS == 9000
WA_MAX_TOKENS == 48
tries == 3

S_ctx == <<"c", "t", "x">>
S_ctx_padded == <<" ", "c", "t", "x", " ">>
S_ans_padded == <<" ", "a", "n", "s", " ">>
S_s1 == <<"s", "1">>
S_s2 == <<"s", "2">>
S_busy == <<"L", "L", "M", " ", "b", "u", "s", "y", ";", " ",
            "t", "r", "y", " ", "a", "g", "a", "i", "n", ".">>
S_ERR == <<"E", "R", "R">>
S_HTTP == <<"H", "T", "T", "P", " ">>
S_refused == <<"C", "o", "n", "n", "e", "c", "t", "i", "o", "n", " ",
               "r", "e", "f", "u", "s", "e", "d">>
S_timed_out == <<"t", "i", "m", "e", "d", " ", "o", "u", "t">>
S_to == <<"w", "h", "a", "t", "s", "a", "p", "p", ":", " ", "1", "5">>

\* Line 38
_ok_twilio ==
    env.TWILIO_ENABLED /\ env.TWILIO_SID # S_empty /\ env.TWILIO_TOKEN # S_empty
    /\ env.TWILIO_FROM # S_empty

\* Lines 48-52.  A .get() on a value that is no mapping, or a .strip() on one
\* that is no string, raises AttributeError.
ExtractContent(c) == IF c.t # "str" THEN Raise ELSE Val(Strip(c.s))
ExtractMessage(msg) ==
    IF msg.t # "obj" THEN Raise
    ELSE ExtractContent(Or(Get(msg, "content"), JStr(S_empty)))
ExtractFirst(first) ==
    IF first.t # "obj" THEN Raise
    ELSE ExtractMessage(Or(Get(first, "message"), EmptyObj))
ExtractChoices(data, text) ==
    IF text = S_empty /\ Get(data, "choices").t = "list"
       /\ Get(data, "choices").e # <<>>
    THEN ExtractFirst(Get(data, "choices").e[1])
    ELSE Val(text)
ExtractTop(data, top) ==
    IF top.t # "str" THEN Raise ELSE ExtractChoices(data, Strip(top.s))
_extract_text(data) ==
    IF data.t # "obj" THEN Raise
    ELSE ExtractTop(data,
                    Or(Or(Or(Get(data, "reply"), Get(data, "response")),
                          Get(data, "text")),
                       JStr(S_empty)))

\* Lines 55-57, on the error text.
RetryableText(err) ==
    \/ Contains(err, <<" ", "5", "0">>)
    \/ Contains(err, <<"5", "0", "2">>)
    \/ Contains(Lower(err), <<"b", "a", "d", " ", "g", "a", "t", "e", "w", "a", "y">>)
    \/ Contains(Lower(err), <<"t", "i", "m", "e", "o", "u", "t">>)
_is_retryable(meta) ==
    RetryableText(Or(Get(meta.data, "error"), JStr(S_empty)).s)

\* r.json() if the content type is JSON, else {} (lines 76 and 93); a body
\* that is not JSON raises json.JSONDecodeError, which is no httpx.HTTPError.
BodyJson(o) ==
    IF ~o.ctype_json THEN Val(EmptyObj)
    ELSE IF o.body = [t |-> "malformed"] THEN Raise
    ELSE Val(o.body)

\* Line 70: the retrieval sub-budget.
SubBudget(timeout_ms) == Max(2000, Min(6000, timeout_ms - 1500))

\* list(d.values()) of a mapping (the order of the keys is not modelled: the
\* mappings given have one key).
ObjValues(x) ==
    CHOOSE seq \in [1..Cardinality(DOMAIN x \ {"t"}) -> {x[k] : k \in DOMAIN x \ {"t"}}] :
        \A k \in DOMAIN x \ {"t"} : \E n \in DOMAIN seq : seq[n] = x[k]
\* str(s)[:80]
Label(v) ==
    IF v.t = "int"
    THEN SubSeq(IntStr(v.n), 1, Min(80, Len(IntStr(v.n))))
    ELSE SubSeq(v.s, 1, Min(80, Len(v.s)))
\* Line 82: the truthy elements, as labels.
RECURSIVE Labels(_)
Labels(seq) ==
    IF seq = <<>> THEN <<>>
    ELSE IF Truthy(Head(seq)) THEN <<Label(Head(seq))>> \o Labels(Tail(seq))
    ELSE Labels(Tail(seq))
\* Lines 79-82; iterating a number raises TypeError.
FetchSources(text, srcs) ==
    CASE srcs.t = "obj" -> Val([ctx |-> text, sources |-> Labels(ObjValues(srcs))])
      [] srcs.t = "list" -> Val([ctx |-> text, sources |-> Labels(srcs.e)])
      [] OTHER -> Raise
\* Line 78
FetchContext(j, c) ==
    IF c.t # "str" THEN Raise
    ELSE FetchSources(Strip(c.s),
                      Or(Or(Get(j, "sources"), Get(j, "evidence")), JList(<<>>)))
FetchJson(j) ==
    IF ~j.ok \/ j.v.t # "obj" THEN Raise
    ELSE FetchContext(j.v, Or(Or(Get(j.v, "context"), Get(j.v, "answer")),
                              JStr(S_empty)))
\* Lines 73-83: the body of the try; raise_for_status() raises on any status
\* outside 200..299.
FetchTry(o) ==
    IF o.kind # "resp" THEN Raise
    ELSE IF o.status < 200 \/ o.status > 299 THEN Raise
    ELSE FetchJson(BodyJson(o))

\* What a call gave: the returned value, or an exception that left it.
Returned(v) == [raised |-> FALSE, v |-> v]
Escaped == [raised |-> TRUE]

EmptyContext == [ctx |-> S_empty, sources |-> <<>>]
\* Lines 84-86: any exception gives ("", []).
FetchExcept(r) == IF r.ok THEN Returned(r.v) ELSE Returned(EmptyContext)

\* _fetch_local_context without the except clause of lines 84-86.
_fetch_local_context_noexcept(o) ==
    IF FetchTry(o).ok THEN Returned(FetchTry(o).v) ELSE Escaped

\* _fetch_local_context, given what the retrieval backend answers.
_fetch_local_context(o) == FetchExcept(FetchTry(o))

\* Lines 96-99: the tuples _call_chat_prompt returns.
Meta(status, data) == [status |-> status, data |-> data]
Success(text, data) ==
    [ok |-> TRUE, text |-> text, meta |-> Meta(IntStr(200), data)]
Failure(status, err) ==
    [ok |-> FALSE, text |-> S_empty,
     meta |-> Meta(status, [t |-> "obj", error |-> JStr(err)])]

\* Lines 94-97
CallText(o, data, text) ==
    IF ~text.ok THEN Escaped
    ELSE IF o.status = 200 /\ text.v # S_empty
    THEN Returned(Success(text.v, data))
    ELSE Returned(Failure(IntStr(o.status), S_HTTP \o IntStr(o.status)))
CallData(o, data) ==
    IF ~data.ok THEN Escaped ELSE CallText(o, data.v, _extract_text(data.v))

\* _call_chat_prompt, given what the generation backend answers: a response,
\* or an httpx.HTTPError with message o.msg.
_call_chat_prompt(o) ==
    IF o.kind # "resp" THEN Returned(Failure(S_ERR, o.msg))
    ELSE CallData(o, BodyJson(o))

\* Lines 101-115 and 120-123: the prompt, as its parts.
_build_prompt(question, context, srcs) ==
    [variant |-> "context", q |-> question, ctx |-> context,
     sources |-> SubSeq(srcs, 1, Min(6, Len(srcs)))]
PlainPrompt(question) ==
    [variant |-> "plain", q |-> question, ctx |-> S_empty, sources |-> <<>>]
\* _answer_with_retry building the context prompt whatever the context.
PromptFor_context(question, c) == _build_prompt(question, c.ctx, c.sources)

\* Lines 120-123
PromptFor(question, c) ==
    IF c.ctx # S_empty THEN _build_prompt(question, c.ctx, c.sources)
    ELSE PlainPrompt(question)

\* The body of a generation call with the backoff sleep just taken deducted
\* from its timeout.
Body_spent(pr, max_tokens, timeout_ms) ==
    [prompt |-> pr, max_tokens |-> Min(max_tokens, 128),
     timeout_ms |-> IF sleeps = <<>> THEN timeout_ms
                    ELSE timeout_ms - sleeps[Len(sleeps)]]

\* Line 90 with line 128: the body of one generation call.
Body(pr, max_tokens, timeout_ms) ==
    [prompt |-> pr, max_tokens |-> Min(max_tokens, 128), timeout_ms |-> timeout_ms]

\* Lines 40-46
S_wa == <<"w", "h", "a", "t", "s", "a", "p", "p", ":">>
RECURSIVE Replace(_, _, _)
Replace(s, old, new) ==
    IF Len(s) < Len(old) THEN s
    ELSE IF SubSeq(s, 1, Len(old)) = old
    THEN new \o Replace(SubSeq(s, Len(old) + 1, Len(s)), old, new)
    ELSE <<Head(s)>> \o Replace(Tail(s), old, new)
StartsWith(s, pre) == Len(s) >= Len(pre) /\ SubSeq(s, 1, Len(pre)) = pre
NormRight(right) ==
    IF right # <<>> /\ IsDigit(right[1]) THEN <<"+">> \o right ELSE right
NormPrefixed(s) ==
    IF StartsWith(s, S_wa)
    THEN S_wa \o NormRight(Strip(SubSeq(s, Len(S_wa) + 1, Len(s))))
    ELSE s
_normalize_wa(s) ==
    NormPrefixed(Replace(Strip(s), S_wa \o <<" ">>, S_wa \o <<"+">>))

\* Lines 187-190 and 204-208: the handler's locals, or the exception that
\* int(), .get() or .strip() raises.
Parsed(qv, tv, mv, tov) ==
    IF qv.t # "str" \/ tov.t # "str" \/ ~tv.ok \/ ~mv.ok THEN Raise
    ELSE Val([q |-> Strip(qv.s), t |-> tv.v, mx |-> mv.v, to |-> Strip(tov.s)])
ParseBody(j) ==
    IF j.t # "obj" THEN Raise
    ELSE Parsed(Or(Get(j, "q"), JStr(S_empty)),
                PyInt(Or(Get(j, "timeout_ms"), JInt(WA_LLM_TIMEOUT_MS))),
                PyInt(Or(Get(j, "max_tokens"), JInt(WA_MAX_TOKENS))),
                Or(Get(j, "to"), JStr(S_empty)))

\* Lines 192-200
AnswerJson(v) ==
    [answer |-> IF ~v.ok THEN S_busy ELSE v.text,
     elapsed_ms |-> Get(v.meta.data, "elapsed_ms"),
     used_tokens |-> Get(v.meta.data, "used_tokens"),
     timeout_ms_used |-> Get(v.meta.data, "timeout_ms_used"),
     max_tokens_used |-> Get(v.meta.data, "max_tokens_used")]
\* Lines 211-212
PushText(v) == IF ~v.ok \/ Strip(v.text) = S_empty THEN S_busy ELSE v.text
\* Line 214
PushJson == [ok |-> TRUE]

\* The backends' answers.
Resp(status, ctype_json, body) ==
    [kind |-> "resp", status |-> status, ctype_json |-> ctype_json, body |-> body]
HttpError(kind, msg) == [kind |-> kind, msg |-> msg]
Malformed == [t |-> "malformed"]

RetrievalOutcomes ==
    {HttpError("neterr", S_refused), HttpError("timeout", S_timed_out),
     Resp(500, TRUE, [t |-> "obj", context |-> JStr(S_ctx)]),
     Resp(200, FALSE, Malformed),
     Resp(200, TRUE, Malformed),
     Resp(200, TRUE, [t |-> "obj", context |-> JStr(S_ctx_padded),
                      sources |-> JList(<<JStr(S_s1), JStr(S_empty), JInt(7)>>)]),
     Resp(200, TRUE, [t |-> "obj", answer |-> JStr(S_ans),
                      evidence |-> [t |-> "obj", k |-> JStr(S_s2)]]),
     Resp(200, TRUE, JList(<<>>)),
     Resp(200, TRUE, [t |-> "obj", context |-> JInt(5)]),
     Resp(200, TRUE, [t |-> "obj", context |-> JStr(S_ctx), sources |-> JInt(5)]),
     Resp(200, TRUE, [t |-> "obj", sources |-> JList(<<JStr(S_s1)>>)])}

GenOutcomes ==
    {HttpError("neterr", S_refused), HttpError("timeout", S_empty),
     HttpError("timeout", S_timed_out),
     Resp(200, TRUE, [t |-> "obj", response |-> JStr(S_ans_padded)]),
     Resp(200, TRUE, [t |-> "obj", reply |-> JStr(S_empty),
                      choices |-> JList(<<[t |-> "obj",
                          message |-> [t |-> "obj", content |-> JStr(S_ans)]]>>)]),
     Resp(200, TRUE, [t |-> "obj",
                      choices |-> JList(<<[t |-> "obj", text |-> JStr(S_ans)]>>)]),
     Resp(200, TRUE, EmptyObj),
     Resp(200, TRUE, Malformed),
     Resp(200, TRUE, [t |-> "obj", response |-> JInt(5)]),
     Resp(200, FALSE, Malformed),
     Resp(400, TRUE, [t |-> "obj", detail |-> JStr(S_abc)]),
     Resp(502, TRUE, [t |-> "obj", detail |-> JStr(S_abc)]),
     Resp(503, FALSE, Malformed),
     Resp(510, TRUE, EmptyObj)}

\* The JSON bodies of the requests to /api/wa/answer and /api/wa/push.
WaQs == {Absent, JStr(S_blank), JStr(S_hi_padded)}
WaTimeouts ==
    {Absent, JInt(0), JInt(5), JInt(1000), JInt(70000), JStr(S_abc)}
WaTokens == {Absent, JInt(0), JInt(-1), JInt(200), JStr(S_abc)}
\* Recipient addresses: the prefix, spaces, an optional "+" and digits; an
\* address with no prefix; one with no number.
S_to_bare == <<"w", "h", "a", "t", "s", "a", "p", "p", ":", "1", "5">>
S_to_plus == <<"w", "h", "a", "t", "s", "a", "p", "p", ":", "+", "1", "5">>
S_to_space_plus == <<"w", "h", "a", "t", "s", "a", "p", "p", ":", " ", "+", "1", "5">>
S_to_spaces == <<"w", "h", "a", "t", "s", "a", "p", "p", ":", " ", " ", "1", "5">>
WaTargets ==
    {JStr(S_to_bare), JStr(S_to_plus), JStr(S_to_space_plus), JStr(S_to_spaces),
     JStr(<<" ">> \o S_to \o <<" ">>), JStr(<<"+", "1", "5">>), JStr(S_wa)}

\* Bodies with one hint at a time for each recipient of tos, and bodies with
\* no hint for each recipient of targets.
WaBodies(tos, targets) ==
    {[t |-> "obj", q |-> qq, timeout_ms |-> a, max_tokens |-> Absent, to |-> x] :
        qq \in WaQs, a \in WaTimeouts, x \in tos}
    \cup
    {[t |-> "obj", q |-> qq, timeout_ms |-> Absent, max_tokens |-> b, to |-> x] :
        qq \in WaQs, b \in WaTokens, x \in tos}
    \cup
    {[t |-> "obj", q |-> JStr(S_hi_padded), timeout_ms |-> Absent,
      max_tokens |-> Absent, to |-> x] : x \in targets}
    \cup {Malformed, JList(<<>>)}

TwilioEnvs ==
    {[TWILIO_ENABLED |-> TRUE, TWILIO_SID |-> S_abc, TWILIO_TOKEN |-> S_abc,
      TWILIO_FROM |-> S_to],
     [TWILIO_ENABLED |-> FALSE, TWILIO_SID |-> S_abc, TWILIO_TOKEN |-> S_abc,
      TWILIO_FROM |-> S_to],
     [TWILIO_ENABLED |-> TRUE, TWILIO_SID |-> S_empty, TWILIO_TOKEN |-> S_abc,
      TWILIO_FROM |-> S_to],
     [TWILIO_ENABLED |-> TRUE, TWILIO_SID |-> S_abc, TWILIO_TOKEN |-> S_empty,
      TWILIO_FROM |-> S_to],
     [TWILIO_ENABLED |-> TRUE, TWILIO_SID |-> S_abc, TWILIO_TOKEN |-> S_abc,
      TWILIO_FROM |-> S_empty]}

\* The provider's answers to the message-creation POST.
TwilioOutcomes ==
    {HttpError("neterr", S_refused), HttpError("timeout", S_timed_out),
     Resp(201, TRUE, EmptyObj), Resp(401, TRUE, EmptyObj),
     Resp(500, FALSE, Malformed)}

\* Lines 151-153: the body of the try; raise_for_status() raises on a status
\* outside 200..299.
SendTry(o) ==
    IF o.kind # "resp" THEN Raise
    ELSE IF o.status < 200 \/ o.status > 299 THEN Raise
    ELSE Val("ok")

\* twilio_send_async without the except clause of lines 156-157.
twilio_send_async_noexcept(o) ==
    IF SendTry(o).ok THEN Returned("ok") ELSE Escaped

\* twilio_send_async once its POST ends (lines 150-157): "ok" is logged, or
\* the exception is caught and "error" is logged.
twilio_send_async(o) ==
    IF SendTry(o).ok THEN Returned("ok") ELSE Returned("error")

\* The handler reads the body (lines 187-190, 204-208) and, in
\* _answer_with_retry, POSTs to the retrieval backend (lines 62-74).
Begin_eager(p) ==
    IF ~p.ok
    THEN /\ pc' = "raised"
         /\ UNCHANGED <<q, t, mx, to, retrievals, bodies>>
    ELSE /\ pc' = "fetch"
         /\ q' = p.v.q /\ t' = p.v.t /\ mx' = p.v.mx /\ to' = p.v.to
         /\ bodies' = Append(bodies, Body(PlainPrompt(p.v.q), p.v.mx, p.v.t))
         /\ retrievals' = Append(retrievals,
                                 [q |-> p.v.q, timeout_ms |-> SubBudget(p.v.t)])

Begin(p) ==
    IF ~p.ok
    THEN /\ pc' = "raised"
         /\ UNCHANGED <<q, t, mx, to, retrievals, bodies>>
    ELSE /\ pc' = "fetch"
         /\ q' = p.v.q /\ t' = p.v.t /\ mx' = p.v.mx /\ to' = p.v.to
         /\ UNCHANGED bodies
         /\ retrievals' = Append(retrievals,
                                 [q |-> p.v.q, timeout_ms |-> SubBudget(p.v.t)])
\* POST /api/wa/answer
ApiAnswer ==
    /\ pc = "idle" /\ svPc = "idle"
    /\ \E j \in WaBodies({Absent}, {}) :
          /\ req' = [route |-> "/api/wa/answer", j |-> j]
          /\ Begin(ParseBody(j))
    /\ UNCHANGED <<ctx, sources, prompt, i, delay, env, fetched, results,
                   sleeps, sends, delivered, ret, resp>>
    /\ UNCHANGED svVars

\* POST /api/wa/push
ApiPush ==
    /\ pc = "idle" /\ svPc = "idle"
    /\ \E j \in WaBodies({JStr(S_to)}, WaTargets) :
          /\ req' = [route |-> "/api/wa/push", j |-> j]
          /\ Begin(ParseBody(j))
    /\ UNCHANGED <<ctx, sources, prompt, i, delay, env, fetched, results,
                   sleeps, sends, delivered, ret, resp>>
    /\ UNCHANGED svVars

\* Lines 119-128: the retrieval answers; the prompt is built and the first
\* generation call is POSTed.
Fetched(f) ==
    IF f.raised
    THEN /\ pc' = "raised"
         /\ UNCHANGED <<ctx, sources, prompt, i, delay, bodies>>
    ELSE /\ ctx' = f.v.ctx /\ sources' = f.v.sources
         /\ prompt' = PromptFor(q, f.v)
         /\ delay' = 500 /\ i' = 1
         /\ bodies' = Append(bodies, Body(PromptFor(q, f.v), mx, t))
         /\ pc' = "call"
FetchReturn ==
    /\ pc = "fetch"
    /\ \E o \in RetrievalOutcomes :
          /\ fetched' = o
          /\ Fetched(_fetch_local_context(o))
    /\ UNCHANGED <<req, q, t, mx, to, env, retrievals, results, sleeps, sends,
                   delivered, ret, resp>>
    /\ UNCHANGED svVars

\* _answer_with_retry returns v (lines 134, 140); api_answer answers (lines
\* 192-200), api_push sends if Twilio is configured (lines 211-213, 145-152).
Finish(v) ==
    /\ ret' = v
    /\ IF req.route = "/api/wa/answer"
       THEN /\ resp' = AnswerJson(v) /\ pc' = "responded"
            /\ UNCHANGED sends
       ELSE IF _ok_twilio
       THEN /\ sends' = Append(sends, [To |-> _normalize_wa(to), Body |-> PushText(v)])
            /\ pc' = "send"
            /\ UNCHANGED resp
       ELSE /\ resp' = PushJson /\ pc' = "responded"
            /\ UNCHANGED sends

\* _answer_with_retry retrying after a retryable failure on the last attempt
\* too.
MayRetry_offbyone(meta, n) == _is_retryable(meta) /\ n <= tries

\* Line 135
MayRetry(meta, n) == _is_retryable(meta) /\ n < tries

\* One attempt, recorded: what the backend answered and what
\* _call_chat_prompt made of it.
Attempt(o, r) ==
    IF r.raised THEN [raised |-> TRUE, o |-> o]
    ELSE [raised |-> FALSE, v |-> r.v, o |-> o]

\* Lines 128-140: one generation call answers.
Called(o, r) ==
    /\ results' = Append(results, Attempt(o, r))
    /\ IF r.raised
       THEN /\ pc' = "raised"
            /\ UNCHANGED <<sleeps, sends, ret, resp>>
       ELSE IF r.v.ok
       THEN Finish(r.v) /\ UNCHANGED sleeps
       ELSE IF MayRetry(r.v.meta, i)
       THEN /\ sleeps' = Append(sleeps, delay)
            /\ pc' = "sleep"
            /\ UNCHANGED <<sends, ret, resp>>
       ELSE Finish(r.v) /\ UNCHANGED sleeps
CallReturn ==
    /\ pc = "call"
    /\ \E o \in GenOutcomes : Called(o, _call_chat_prompt(o))
    /\ UNCHANGED <<req, q, t, mx, to, ctx, sources, prompt, i, delay, env, fetched,
                   retrievals, bodies, delivered>>
    /\ UNCHANGED svVars

\* The backoff delay left as it is after a sleep.
NextDelay_same(d) == d

\* Line 137: delay *= 1.6, in milliseconds.
NextDelay(d) == (d * 8) \div 5

\* Lines 137-138 and 126-128: the sleep ends, delay *= 1.6, the next call is
\* POSTed.
SleepDone ==
    /\ pc = "sleep"
    /\ delay' = NextDelay(delay)
    /\ i' = i + 1
    /\ bodies' = Append(bodies, Body(prompt, mx, t))
    /\ pc' = "call"
    /\ UNCHANGED <<req, q, t, mx, to, ctx, sources, prompt, env, fetched,
                   retrievals, results, sleeps, sends, delivered, ret, resp>>
    /\ UNCHANGED svVars

\* api_push sending again after a failed send.
Sent_resend(r) ==
    IF r.raised
    THEN pc' = "raised" /\ UNCHANGED <<sends, delivered, resp>>
    ELSE IF r.v = "error" /\ Len(sends) < 2
    THEN /\ sends' = Append(sends, sends[1])
         /\ delivered' = r.v
         /\ pc' = "send"
         /\ UNCHANGED resp
    ELSE /\ delivered' = r.v
         /\ resp' = PushJson
         /\ pc' = "responded"
         /\ UNCHANGED sends

\* Lines 213-214: twilio_send_async returned (or raised); api_push answers.
Sent(r) ==
    IF r.raised
    THEN pc' = "raised" /\ UNCHANGED <<sends, delivered, resp>>
    ELSE /\ delivered' = r.v
         /\ resp' = PushJson
         /\ pc' = "responded"
         /\ UNCHANGED sends

\* Lines 152-157 and 214: the Twilio POST ends.
TwilioReturn ==
    /\ pc = "send"
    /\ \E o \in TwilioOutcomes : Sent(twilio_send_async(o))
    /\ UNCHANGED <<req, q, t, mx, to, ctx, sources, prompt, i, delay, env, fetched,
                   retrievals, bodies, results, sleeps, ret>>
    /\ UNCHANGED svVars

\* The worker's variables while it serves nothing.
WaIdle ==
    /\ pc = "idle" /\ req = NoReq
    /\ q = S_empty /\ t = 0 /\ mx = 0 /\ to = S_empty
    /\ ctx = S_empty /\ sources = <<>> /\ prompt = NoReq
    /\ i = 0 /\ delay = 0
    /\ fetched = NoReq
    /\ retrievals = <<>> /\ bodies = <<>> /\ results = <<>>
    /\ sleeps = <<>> /\ sends = <<>> /\ delivered = "none"
    /\ ret = NoReq /\ resp = NoResp

\* server.py after start-up: the configuration is whatever the environment
\* gave (lines 37, 49, 50), no request has been served.
InitServer ==
    /\ GATEWAY_DEFAULT_TIMEOUT_MS \in {500, 30000}
    /\ GATEWAY_MAX_TIMEOUT_MS \in {500, 1000, 60000}
    /\ MODEL_TOKENS \in 0..MaxModelTokens
    /\ svPc = "idle" /\ svReq = NoReq /\ svResp = NoResp /\ svLlama = 0
    /\ env \in {e \in TwilioEnvs : ~e.TWILIO_ENABLED}
    /\ WaIdle

NextServer == ChatGet \/ ChatPost

SpecServer == InitServer /\ [][NextServer]_vars

\* Both services after start-up, server.py with its default configuration
\* (MODEL_TOKENS scaled to the model's token hints).
Init ==
    /\ GATEWAY_DEFAULT_TIMEOUT_MS = 30000
    /\ GATEWAY_MAX_TIMEOUT_MS = 60000
    /\ MODEL_TOKENS = MaxModelTokens
    /\ svPc = "idle" /\ svReq = NoReq /\ svResp = NoResp /\ svLlama = 0
    /\ env \in TwilioEnvs
    /\ WaIdle

Next ==
    \/ ChatGet \/ ChatPost
    \/ ApiAnswer \/ ApiPush \/ FetchReturn \/ CallReturn \/ SleepDone
    \/ TwilioReturn

Spec == Init /\ [][Next]_vars

\* Every backend call returns or times out at the transport layer (each
\* httpx client is given a timeout: lines 73, 125, 151), asyncio.sleep ends,
\* and the event loop resumes the handler.
LiveSpec ==
    /\ Init /\ [][Next]_vars
    /\ WF_vars(FetchReturn) /\ WF_vars(CallReturn)
    /\ WF_vars(SleepDone) /\ WF_vars(TwilioReturn)

---------------------------------------------------------------------------
(* server.py: properties of the timeout resolver and the token clamp, read  *)
(* off the responses of GET /chat and POST /chat.                           *)

\* The hint mapping the handler gave to _resolve_timeout_ms.
HintMap ==
    IF svReq.route = "GET /chat" THEN svReq.query ELSE Merged(svReq)
\* The token request the handler gave to _clamp_tokens.
TokensReq ==
    IF svReq.route = "GET /chat" THEN Or(svReq.max_tokens, svReq.n_predict)
    ELSE Or(Get(svReq.payload, "max_tokens"), Get(svReq.payload, "n_predict"))

\* A hint is supplied when its key is present, not None, and converts to an
\* integer number of milliseconds.
MsSupplied(d) ==
    HasKey(d, "timeout_ms") /\ d.timeout_ms # JNull /\ PyInt(d.timeout_ms).ok
SecSupplied(d) ==
    /\ HasKey(d, "timeout") /\ d.timeout # JNull
    /\ PyFloat(d.timeout).ok /\ PyFloat(d.timeout).v.den # 0
MsValue(d) == PyInt(d.timeout_ms).v
SecValue(d) == TruncDiv(PyFloat(d.timeout).v.num * 1000, PyFloat(d.timeout).v.den)
\* The client's value when one is supplied.
ClientValue(d) == IF MsSupplied(d) THEN MsValue(d) ELSE SecValue(d)
ClientSupplied(d) == MsSupplied(d) \/ SecSupplied(d)

\* C4: for every hint mapping, default and ceiling >= 1000, the resolved
\* timeout t satisfies 1000 <= t <= ceiling.
C4_TimeoutWithinBounds ==
    (svPc = "responded" /\ GATEWAY_MAX_TIMEOUT_MS >= 1000) =>
        /\ svResp.timeout_ms_used >= 1000
        /\ svResp.timeout_ms_used <= GATEWAY_MAX_TIMEOUT_MS

\* C4 witness: a negative hint was resolved under a ceiling >= 1000.
C4_Witness ==
    /\ svPc = "responded" /\ GATEWAY_MAX_TIMEOUT_MS >= 1000
    /\ svReq.route = "POST /chat" /\ svReq.payload.timeout_ms = JInt(-5)
    /\ svResp.timeout_ms_used = 1000

\* C5 as stated: the tag is default iff no client value was supplied,
\* explicit ("client") iff one was supplied and the final value equals it,
\* clamped whenever one was supplied and the final value differs from it,
\* raised by the floor included.
C5_TagAsStated ==
    svPc = "responded" =>
        svResp.timeout_source =
            IF ~ClientSupplied(HintMap) THEN "default"
            ELSE IF svResp.timeout_ms_used = ClientValue(HintMap) THEN "client"
            ELSE "clamped"

\* C5 amended: the tag is default iff no client value was supplied, clamped
\* iff one was supplied and the final value is below it (reduced by the
\* ceiling), and "client" iff one was supplied and the final value is not
\* below it: equal to it, or raised to the 1000 ms floor.
C5_TagReducedOnly ==
    svPc = "responded" =>
        svResp.timeout_source =
            IF ~ClientSupplied(HintMap) THEN "default"
            ELSE IF svResp.timeout_ms_used < ClientValue(HintMap) THEN "clamped"
            ELSE "client"

\* C5 witness: a client value below the floor was raised and is tagged
\* "client".
C5_Witness ==
    /\ svPc = "responded"
    /\ ClientSupplied(HintMap) /\ ClientValue(HintMap) < 1000
    /\ svResp.timeout_ms_used = 1000
    /\ svResp.timeout_source = "client"

\* The value before clamping, by precedence.
PreClamp(d) ==
    IF MsSupplied(d) THEN MsValue(d)
    ELSE IF SecSupplied(d) THEN SecValue(d)
    ELSE GATEWAY_DEFAULT_TIMEOUT_MS
\* d with every hint that does not convert taken out.
WithoutUnparsed(d) ==
    [t |-> "obj",
     timeout_ms |-> IF MsSupplied(d) THEN d.timeout_ms ELSE Absent,
     timeout |-> IF SecSupplied(d) THEN d.timeout ELSE Absent]

\* C6: the pre-clamp value is the timeout_ms hint when present and parsing,
\* otherwise the seconds hint times 1000 when present and parsing,
\* otherwise the default; a hint that does not parse acts as an absent one
\* (no error, and the tag stays default unless another hint parses).
C6_Precedence ==
    svPc = "responded" =>
        /\ svResp.timeout_ms_used = Max(1000, Min(PreClamp(HintMap), GATEWAY_MAX_TIMEOUT_MS))
        /\ _resolve_timeout_ms(WithoutUnparsed(HintMap)) =
               [t_ms |-> svResp.timeout_ms_used, src |-> svResp.timeout_source]
        /\ ~ClientSupplied(HintMap) => svResp.timeout_source = "default"

\* C6 witness: both hints parse and the milliseconds hint wins.
C6_Witness ==
    /\ svPc = "responded"
    /\ svReq.route = "POST /chat"
    /\ svReq.payload.timeout_ms = JStr(S_5000) /\ svReq.payload.timeout = JInt(61)
    /\ GATEWAY_MAX_TIMEOUT_MS = 60000
    /\ svResp.timeout_ms_used = 5000

\* The token request is a number r.
TokensNumeric == Truthy(TokensReq) /\ PyInt(TokensReq).ok

\* C8: for every token request and server_max >= 1 the effective value is in
\* [1, server_max], and equals server_max when the request is absent,
\* non-numeric or greater than server_max.
C8_TokensClamped ==
    (svPc = "responded" /\ MODEL_TOKENS >= 1) =>
        /\ svResp.max_tokens_used >= 1
        /\ svResp.max_tokens_used <= MODEL_TOKENS
        /\ (TokensReq \in {Absent, JNull}
            \/ ~PyInt(TokensReq).ok
            \/ PyInt(TokensReq).v > MODEL_TOKENS)
           => svResp.max_tokens_used = MODEL_TOKENS

\* C8 witness: a request above server_max was cut to server_max.
C8_Witness ==
    /\ svPc = "responded" /\ MODEL_TOKENS >= 1
    /\ TokensNumeric /\ PyInt(TokensReq).v > MODEL_TOKENS
    /\ svResp.max_tokens_used = MODEL_TOKENS

---------------------------------------------------------------------------
(* whatsapp_llm_gateway.py: properties of the answer pipeline, read off the  *)
(* calls it made and the response it gave.                                   *)

\* C1: for every caller input and every outcome of the generation backend
\* (network error, timeout, non-200 status, non-JSON body, malformed JSON
\* body, JSON whose answer fields have unexpected types) the answer operation
\* ends by returning a result; no exception leaves the pipeline once it has
\* called the generation backend.
C1_NoExceptionEscapes ==
    (req.route = "/api/wa/answer" /\ bodies # <<>>) => pc # "raised"

\* C2: when the orchestrator ends in failure, the result returned to the
\* caller has answer = the busy sentence and ok = false; when it ends in
\* success, answer = the text of the successful attempt and ok = true.
C2_ResultCarriesOk ==
    (req.route = "/api/wa/answer" /\ pc = "responded") =>
        /\ resp.answer = (IF ret.ok THEN ret.text ELSE S_busy)
        /\ "ok" \in DOMAIN resp
        /\ resp.ok = ret.ok

\* The classes of what one generation call returned.
Succeeded(r) == ~r.raised /\ r.v.ok
RetryableFailure(r) ==
    ~r.raised /\ ~r.v.ok /\ RetryableText(r.v.meta.data.error.s)
FatalFailure(r) ==
    ~r.raised /\ ~r.v.ok /\ ~RetryableText(r.v.meta.data.error.s)

\* C3: with max_tries = 3 the orchestrator calls the generation client
\* exactly k times, k the position of the first outcome that is a success or
\* a non-retryable failure, or 3 when the first three are retryable
\* failures; it returns success iff call k succeeded and otherwise the
\* failure of call k; there are never more than 3 calls.
C3_RetryCalls ==
    /\ Len(bodies) <= 3
    /\ Len(bodies) = Len(results) + (IF pc = "call" THEN 1 ELSE 0)
    /\ \A n \in 1..(Len(results) - 1) : RetryableFailure(results[n])
    /\ pc = "sleep" =>
          RetryableFailure(results[Len(results)]) /\ Len(results) < 3
    /\ ret # NoReq =>
          /\ Len(results) >= 1
          /\ \/ Succeeded(results[Len(results)])
             \/ FatalFailure(results[Len(results)])
             \/ Len(results) = 3 /\ RetryableFailure(results[3])
          /\ ret = results[Len(results)].v
          /\ ret.ok <=> Succeeded(results[Len(results)])

\* C3 witness: HTTP 502, 502, then 200 with text: three calls and success.
C3_Witness ==
    /\ ret # NoReq /\ ret.ok /\ ret.text = S_ans
    /\ Len(bodies) = 3 /\ Len(results) = 3
    /\ results[1].v.meta.status = IntStr(502)
    /\ results[2].v.meta.status = IntStr(502)
    /\ results[3].v.meta.status = IntStr(200)

\* C7: whatever timeout_ms hint the caller of the answer and push operations
\* sends, the timeout used for retrieval and sent as timeout_ms in every
\* generation attempt lies within [1000, ceiling].
C7_TimeoutResolved ==
    /\ retrievals # <<>> => (t >= 1000 /\ t <= GATEWAY_MAX_TIMEOUT_MS)
    /\ \A n \in DOMAIN bodies :
          /\ bodies[n].timeout_ms >= 1000
          /\ bodies[n].timeout_ms <= GATEWAY_MAX_TIMEOUT_MS

\* The question of the request served: missing or empty after trimming.
ServerQuestion ==
    IF svReq.route = "GET /chat"
    THEN Or(Or(svReq.prompt, svReq.q), JStr(S_empty))
    ELSE Or(Get(svReq.payload, "prompt"), JStr(S_empty))
ServerQuestionEmpty ==
    svPc # "idle" /\ ServerQuestion.t = "str" /\ Strip(ServerQuestion.s) = S_empty
GatewayQuestionEmpty ==
    /\ pc # "idle" /\ req.j.t = "obj"
    /\ Or(Get(req.j, "q"), JStr(S_empty)).t = "str"
    /\ Strip(Or(Get(req.j, "q"), JStr(S_empty)).s) = S_empty

\* C9: a request whose question is missing or empty after trimming is
\* reported as a client-input fault, and no retrieval call, generation
\* attempt or push send is made for it, on GET /chat, POST /chat,
\* /api/wa/answer and /api/wa/push.
C9_EmptyQuestionRejected ==
    /\ ServerQuestionEmpty =>
          svPc = "fault" /\ svResp.status = 422 /\ svLlama = 0
    /\ GatewayQuestionEmpty =>
          retrievals = <<>> /\ bodies = <<>> /\ sends = <<>>

\* The retrieval call failed: no response, a status outside 2xx, a body that
\* is not JSON, or JSON that is no object, whose context is no string or
\* whose sources are neither a list nor a mapping.
RetrievalFailed(o) ==
    \/ o.kind # "resp"
    \/ o.status \notin 200..299
    \/ ~o.ctype_json
    \/ o.body = Malformed
    \/ o.body.t # "obj"
    \/ Or(Or(Get(o.body, "context"), Get(o.body, "answer")), JStr(S_empty)).t # "str"
    \/ Or(Or(Get(o.body, "sources"), Get(o.body, "evidence")), JList(<<>>)).t
          \notin {"list", "obj"}

\* C10: for every outcome of the retrieval call _fetch_local_context returns
\* normally (the orchestrator goes on to its first generation call), and on
\* every failure it returns exactly ("", []).
C10_FetchAlwaysReturns ==
    fetched # NoReq =>
        /\ bodies # <<>>
        /\ RetrievalFailed(fetched) => (ctx = S_empty /\ sources = <<>>)

\* C10 witness: the retrieval backend was unreachable, and the orchestrator
\* went on with an empty context.
C10_Witness ==
    /\ fetched = HttpError("neterr", S_refused)
    /\ bodies # <<>> /\ ctx = S_empty /\ sources = <<>>
    /\ bodies[1].prompt.variant = "plain"

\* The provider is enabled and account id, auth token and sender address
\* are all set.
PushConfigured ==
    /\ env.TWILIO_ENABLED
    /\ env.TWILIO_SID # S_empty /\ env.TWILIO_TOKEN # S_empty
    /\ env.TWILIO_FROM # S_empty

\* C11: the push dispatcher never raises to its caller: with the provider
\* disabled or an account id, auth token or sender address missing no send
\* is attempted and the push operation answers its acknowledgment; when the
\* send fails (network, auth, non-2xx) the error is swallowed and the push
\* operation still answers its acknowledgment.
C11_PushNeverRaises ==
    (req.route = "/api/wa/push" /\ ret # NoReq) =>
        /\ pc # "raised"
        /\ ~PushConfigured => (sends = <<>> /\ pc = "responded" /\ resp = PushJson)
        /\ PushConfigured => Len(sends) = 1
        /\ delivered # "none" => (pc = "responded" /\ resp = PushJson)

\* C11 witness: the send failed and the push operation answered its
\* acknowledgment.
C11_Witness ==
    /\ req.route = "/api/wa/push" /\ PushConfigured
    /\ delivered = "error" /\ pc = "responded" /\ resp = PushJson

\* C12: for each push request at most one message-creation call is issued,
\* only after the answer pipeline has ended (the orchestrator has returned
\* and no generation call is in flight), and it is not issued again when the
\* send fails or when generation attempts were retried.
C12_PushAtMostOnce ==
    /\ Len(sends) <= 1
    /\ sends # <<>> =>
          /\ req.route = "/api/wa/push"
          /\ ret # NoReq
          /\ Len(bodies) = Len(results)
          /\ pc \in {"send", "responded"}

\* C12 witness: three generation attempts, then one send, which failed.
C12_Witness ==
    /\ Len(results) = 3 /\ Len(sleeps) = 2
    /\ Len(sends) = 1 /\ delivered = "error" /\ pc = "responded"

\* The part of an address after the channel prefix, spaces dropped.
TargetNumber(s) == LStrip(SubSeq(s, Len(S_wa) + 1, Len(s)))
\* Its digits, an optional leading "+" dropped.
TargetDigits(s) ==
    IF TargetNumber(s) # <<>> /\ Head(TargetNumber(s)) = "+"
    THEN Tail(TargetNumber(s)) ELSE TargetNumber(s)
\* The prefix, optional spaces, an optional "+" and a digit string.
RepairableTarget(s) ==
    /\ StartsWith(s, S_wa)
    /\ TargetDigits(s) # <<>>
    /\ \A n \in DOMAIN TargetDigits(s) : IsDigit(TargetDigits(s)[n])

\* C13: for every recipient address made of "whatsapp:", optional spaces,
\* an optional "+" and a digit string, _normalize_wa returns "whatsapp:"
\* followed by exactly one "+" and the same digits; an address that already
\* has that form is returned unchanged.
C13_TargetNormalized ==
    \A n \in DOMAIN sends :
        RepairableTarget(to) =>
            sends[n].To = S_wa \o <<"+">> \o TargetDigits(to)

\* C14: if every backend call eventually returns or times out, every answer
\* request eventually delivers a response to its caller, for every
\* combination of retrieval and generation outcomes.
C14_AnswerDelivered ==
    (req.route = "/api/wa/answer" /\ pc = "fetch") ~> (pc = "responded")

\* A transient upstream error: the backend is unreachable, the transport
\* timed out, or the status is in 500..599.
Transient(o) == o.kind # "resp" \/ (o.status >= 500 /\ o.status <= 599)

\* C15: a failed generation attempt is classified retryable for every
\* transient upstream error (status 500..599, transport timeout, unreachable
\* backend) and non-retryable for every 4xx status and for a response with
\* no usable text; with attempts remaining the orchestrator retries exactly
\* the retryable ones.
C15_TransientRetried ==
    \A n \in DOMAIN results :
        (~results[n].raised /\ ~results[n].v.ok) =>
            /\ _is_retryable(results[n].v.meta) <=> Transient(results[n].o)
            /\ n < 3 =>
                  ((n < Len(bodies) \/ pc = "sleep") <=> Transient(results[n].o))

\* C16: exactly one backoff sleep separates each pair of consecutive
\* attempts and none follows a success, a non-retryable failure or the final
\* attempt; the sleep before attempt 2 is 0.5 s and each later one is 1.6
\* times the one before (0.5 s, 0.8 s), so the delays strictly increase.
C16_BackoffSleeps ==
    /\ bodies # <<>> =>
          Len(sleeps) = (IF pc = "sleep" THEN Len(bodies) ELSE Len(bodies) - 1)
    /\ pc \in {"responded", "send", "raised"} /\ results # <<>> =>
          Len(sleeps) = Len(results) - 1
    /\ sleeps # <<>> => sleeps[1] = 500
    /\ \A n \in 1..(Len(sleeps) - 1) :
          /\ 10 * sleeps[n + 1] = 16 * sleeps[n]
          /\ sleeps[n + 1] > sleeps[n]

\* C16 witness: three failed attempts, sleeps of 0.5 s and 0.8 s between
\* them and none after the last.
C16_Witness ==
    /\ sleeps = <<500, 800>> /\ Len(results) = 3
    /\ ret # NoReq /\ ~ret.ok /\ pc = "responded"

\* The TokenBudget value of the caller's hint against the gateway's
\* configured token value.
EffectiveTokens(h) ==
    IF ~Truthy(h) \/ ~PyInt(h).ok THEN WA_MAX_TOKENS
    ELSE Max(1, Min(PyInt(h).v, WA_MAX_TOKENS))

\* C17: for every max_tokens hint the max_tokens sent in each generation
\* attempt equals min(effective, 128), effective being the hint clamped
\* into [1, server_max]; it is at least 1 and never above the configured
\* ceiling.
C17_TokensSentClamped ==
    \A n \in DOMAIN bodies :
        /\ bodies[n].max_tokens >= 1
        /\ bodies[n].max_tokens <= WA_MAX_TOKENS
        /\ bodies[n].max_tokens = Min(EffectiveTokens(Get(req.j, "max_tokens")), 128)

\* C18: within one request the retrieval call ends before the prompt is
\* composed, the prompt is composed before the first generation attempt is
\* dispatched, and attempt k+1 is dispatched only after attempt k returned:
\* never two generation calls in flight.
C18_EventsOrdered ==
    /\ pc = "fetch" => (fetched = NoReq /\ prompt = NoReq /\ bodies = <<>>)
    /\ prompt # NoReq => (fetched # NoReq /\ prompt.ctx = ctx)
    /\ bodies # <<>> => prompt # NoReq
    /\ \A n \in DOMAIN bodies : bodies[n].prompt = prompt
    /\ Len(bodies) - Len(results) \in {0, 1}
    /\ Len(bodies) > Len(results) <=> pc = "call"

\* C18 witness: the third attempt is in flight after two have returned.
C18_Witness ==
    /\ pc = "call" /\ Len(bodies) = 3 /\ Len(results) = 2
    /\ prompt.variant = "context" /\ fetched # NoReq

\* The candidate answer fields of a payload, in priority order.
FirstChoice(data) ==
    IF Get(data, "choices").t = "list" /\ Get(data, "choices").e # <<>>
    THEN Get(data, "choices").e[1] ELSE EmptyObj
Candidates(data) ==
    <<Get(data, "reply"), Get(data, "response"), Get(data, "text"),
      Get(FirstChoice(data), "text"),
      Get(Get(FirstChoice(data), "message"), "content")>>
NonEmptyText(v) == v.t = "str" /\ Strip(v.s) # S_empty
\* The first candidate that is a non-empty string, or "".
FirstText(data) ==
    IF \E k \in 1..5 : NonEmptyText(Candidates(data)[k])
    THEN Strip(Candidates(data)[CHOOSE k \in 1..5 :
                   /\ NonEmptyText(Candidates(data)[k])
                   /\ \A m \in 1..(k - 1) : ~NonEmptyText(Candidates(data)[m])].s)
    ELSE S_empty

\* C19: _extract_text returns the first non-empty string among reply,
\* response, text, choices[0].text, choices[0].message.content, and the
\* empty string when none is one, for every payload mapping (read off what
\* _call_chat_prompt makes of a 200 response whose candidate fields are
\* strings or missing: success with that text, or a failure when it is
\* empty).
C19_ExtractPriority ==
    \A n \in DOMAIN results :
        (/\ results[n].o.kind = "resp" /\ results[n].o.status = 200
         /\ results[n].o.ctype_json /\ results[n].o.body.t = "obj"
         /\ \A k \in 1..5 :
               Candidates(results[n].o.body)[k].t \in {"null", "str"}) =>
            /\ ~results[n].raised
            /\ IF FirstText(results[n].o.body) = S_empty
               THEN ~results[n].v.ok
               ELSE /\ results[n].v.ok
                    /\ results[n].v.text = FirstText(results[n].o.body)

\* C20: when retrieval fails or gives an empty context text the pipeline
\* still dispatches generation, with the no-context prompt; the context
\* prompt is used exactly when the context text is non-empty; a retrieval
\* failure alone never makes the result a failure.
C20_NoContextFallback ==
    /\ fetched # NoReq => bodies # <<>>
    /\ \A n \in DOMAIN bodies :
          /\ bodies[n].prompt.variant = (IF ctx = S_empty THEN "plain" ELSE "context")
          /\ RetrievalFailed(fetched) => bodies[n].prompt.variant = "plain"
          /\ bodies[n].prompt.variant = "context" =>
                (bodies[n].prompt.ctx = ctx /\ ctx # S_empty)
    /\ (ret # NoReq /\ Succeeded(results[Len(results)])) => ret.ok

\* C20 witness: retrieval failed, generation ran on the no-context prompt
\* and the result is a success.
C20_Witness ==
    /\ fetched # NoReq /\ RetrievalFailed(fetched)
    /\ ret # NoReq /\ ret.ok /\ pc = "responded"
    /\ bodies[1].prompt.variant = "plain"

\* C21: the retrieval sub-budget clamp(overall - 1500, 2000, 6000) is carved
\* out of the total deadline: whenever the request's overall timeout lies in
\* [1000, ceiling], the timeout_ms sent to the retrieval backend does not
\* exceed it.
C21_SubBudgetWithinTotal ==
    \A n \in DOMAIN retrievals :
        (t >= 1000 /\ t <= GATEWAY_MAX_TIMEOUT_MS) =>
            retrievals[n].timeout_ms <= t

\* C22: every generation attempt of one request sends the same body: the
\* request's prompt, min(max_tokens, 128) and the request's full timeout,
\* whatever time retrieval, earlier attempts and backoff sleeps have taken;
\* a retry changes the attempt counter and the backoff delay and leaves the
\* request's question, timeout, token count, context and prompt as they are.
C22_AttemptsIdentical ==
    /\ [](\A n \in DOMAIN bodies :
             bodies[n] = [prompt |-> prompt, max_tokens |-> Min(mx, 128),
                          timeout_ms |-> t])
    /\ [][pc = "sleep" =>
             /\ UNCHANGED <<req, q, t, mx, to, ctx, sources, prompt>>
             /\ i' = i + 1 /\ delay' > delay
             /\ bodies' = Append(bodies, bodies[Len(bodies)])]_vars

\* C22 witness: a request with a 1000 ms timeout is at its third attempt,
\* after retrieval gave a context and two backoff sleeps of 1300 ms in all.
C22_Witness ==
    /\ pc = "call" /\ t = 1000 /\ Len(bodies) = 3
    /\ sleeps = <<500, 800>> /\ prompt.variant = "context"
    /\ bodies[3].timeout_ms = 1000

=============================================================================
